---- MODULE Spec2Model ----
(***************************************************************************)
(* Job-board backend: the identity, job and application stores, the        *)
(* request handlers of routes/authRoutes.js, routes/jobRoutes.js and       *)
(* routes/applicationRoutes.js, and the static /uploads mount of the       *)
(* server file.  A handler that awaits a store operation between a read    *)
(* and a write of the stores is split at its await points (submit,         *)
(* setStatus).  A response is an output of the step that sends it: the     *)
(* ...Reply and ...Code operators compute it from the stores and the       *)
(* request, and a handler that only reads leaves the state as it is.       *)
(***************************************************************************)
EXTENDS Naturals, Integers, Sequences, FiniteSets, Bags, TLC

\* ---------------------------------------------------------------- bounds

\* Jobs that may be posted, files that may be uploaded (one per submit
\* that reaches the upload middleware, so also the number of submits that
\* get that far) and setStatus requests that may be suspended at once.
MaxJobs == 1
MaxFiles == 2
MaxStatusInflight == 1

\* For the runs that exercise signup: signups admitted in all.
MaxSignups == 2

\* For the runs that exercise setStatus: jobs, files, and requests of
\* any kind that may be suspended at once.
StatusJobs == 1
StatusFiles == 1
StatusRequests == 1

\* ------------------------------------------------------------- vocabulary

\* Mongoose's default for Job.applicationCount.
DefaultApplicationCount == 0

\* applicationSchema.status enum and the handler's validStatuses.
StatusEnum == {"pending", "reviewed", "rejected", "accepted"}
\* The list of setStatus with one more name let through.
validStatusesLoose == {"pending", "reviewed", "rejected", "accepted", "archived"}

validStatuses == {"pending", "reviewed", "rejected", "accepted"}

\* Status values a client may send to setStatus: the four names and one
\* string outside them.
StatusInputs == validStatuses \cup {"archived"}

\* Roles a client may send to signup, spelled as sequences whose elements
\* are a role name or a space: no role (or the empty string, falsy alike),
\* the two role names, a padded role name, and white space only.
RoleInputs ==
    { <<>>, <<"jobSeeker">>, <<"company">>, <<" ", "company">>, <<" ">> }

\* Cover letters a client may send ("" stands for absent or empty: both
\* reach the document as '' through `coverLetter || ''`).
CoverLetterInputs == {"", "cl"}

\* applicationCount values a client may put in the body of POST /api/jobs
\* (-1 stands for a body without the field).
BodyCounts == {-1, 2}

\* Identifiers a client may send: 0 is a string that is no ObjectId, a
\* positive number is a well-formed ObjectId (of a document or of none).
BadId == 0
JobIdInputs == 0..MaxJobs
FileNames == 1..MaxFiles

\* mongoose.Types.ObjectId.isValid
ObjectIdIsValid(id) == id /= BadId

\* E-mail addresses as character sequences.
RawEmails ==
    { <<"a", "@", "x", ".", "c">>,
      <<"A", "@", "X", ".", "c">>,
      <<" ", "a", "@", "x", ".", "c">>,
      <<"b", "@", "x", ".", "c">>,
      <<"c", "@", "x", ".", "c">>,
      <<"d", "@", "x", ".", "c">>,
      <<"a", "x", ".", "c">> }

IsSpace(ch) == ch = " "

ToLowerChar(ch) ==
    CASE ch = "A" -> "a"
      [] ch = "X" -> "x"
      [] OTHER -> ch

\* String.prototype.toLowerCase
ToLowerCase(s) == [i \in 1..Len(s) |-> ToLowerChar(s[i])]

RECURSIVE TrimLeft(_)
TrimLeft(s) == IF s /= <<>> /\ IsSpace(Head(s)) THEN TrimLeft(Tail(s)) ELSE s

RECURSIVE TrimRight(_)
TrimRight(s) ==
    IF s /= <<>> /\ IsSpace(s[Len(s)])
    THEN TrimRight(SubSeq(s, 1, Len(s) - 1))
    ELSE s

\* String.prototype.trim
Trim(s) == TrimRight(TrimLeft(s))

\* /^[^\s@]+@[^\s@]+\.[^\s@]+$/.test(email)
EmailFormatOk(s) ==
    \E i \in 2..Len(s) : \E j \in (i + 2)..(Len(s) - 1) :
        /\ s[i] = "@"
        /\ s[j] = "."
        /\ \A k \in (1..Len(s)) \ {i} : ~IsSpace(s[k]) /\ s[k] /= "@"

\* ------------------------------------------------------------------ state

VARIABLES
    users,      \* identity store: sequence of [email, role]; _id = index
    jobs,       \* job store: sequence of [postedBy, applicationCount]
    apps,       \* application store: sequence of documents; _id = index
    uploads,    \* file names present in the uploads directory
    inflight,   \* bag of requests suspended at an await
    uncounted,  \* history: applications whose submit ended before counting
    phase       \* position of the end-to-end client script (0: no script)

vars == <<users, jobs, apps, uploads, inflight, uncounted, phase>>

UserIds == 1..Len(users)
JobIds == 1..Len(jobs)
AppIds == 1..Len(apps)

\* A request without a bearer token has caller 0.
Anonymous == 0
Callers == 0..Len(users)

RoleOf(u) == IF u \in UserIds THEN users[u].role ELSE ""

\* A response: the HTTP status, a detail (the message) and the payload.
Reply(code, detail, body) == [code |-> code, detail |-> detail, body |-> body]

\* The stores of a fresh deployment.
EmptyStores ==
    /\ users = <<>>
    /\ jobs = <<>>
    /\ apps = <<>>
    /\ uploads = {}
    /\ inflight = EmptyBag
    /\ uncounted = {}

\* The identity store after four signups: two companies, two job seekers.
RegisteredUsers ==
    << [email |-> <<"a", "@", "x", ".", "c">>, role |-> "company"],
       [email |-> <<"b", "@", "x", ".", "c">>, role |-> "jobSeeker"],
       [email |-> <<"c", "@", "x", ".", "c">>, role |-> "company"],
       [email |-> <<"d", "@", "x", ".", "c">>, role |-> "jobSeeker"] >>

\* A deployment whose users have signed up and that holds nothing else.
Init ==
    /\ users = RegisteredUsers
    /\ jobs = <<>>
    /\ apps = <<>>
    /\ uploads = {}
    /\ inflight = EmptyBag
    /\ uncounted = {}
    /\ phase = 0

\* ------------------------------------------------------------- middleware

\* protect: a request without a valid bearer token is answered 401.
ProtectRejects(u) == u \notin UserIds

\* roleAuthorization(roles): the token's role must be one of `roles`.
RoleRejects(u, roles) == RoleOf(u) \notin roles

\* The answer of the two gates, 0 when both let the request through.
GateCode(u, roles) ==
    IF ProtectRejects(u) THEN 401
    ELSE IF RoleRejects(u, roles) THEN 403
    ELSE 0

\* ------------------------------------------------------------ auth routes

\* email.trim().toLowerCase()
NormalizeEmail(raw) == ToLowerCase(Trim(raw))

\* role = (role || 'jobSeeker').trim()
SignupRole(roleIn) == Trim(IF roleIn = <<>> THEN <<"jobSeeker">> ELSE roleIn)

\* The string a role spelling stands for: the name, or '' when nothing is
\* left of it.
RoleName(text) == IF Len(text) = 1 THEN text[1] ELSE ""

\* The roles the user schema admits.
UserRoleEnum == {"jobSeeker", "company"}

EmailTaken(email) == \E i \in UserIds : users[i].email = email

\* The document User.create is given: { name, email, password, role }
\* with the sanitized locals.
NewUser(raw, roleIn) ==
    [email |-> NormalizeEmail(raw), role |-> RoleName(SignupRole(roleIn))]

\* Schema validation of User.create: the role must be in the enum.
UserValid(doc) == doc.role \in UserRoleEnum

\* The unique index on email: no stored user has the document's email.
UserInsertAllowed(doc) == ~EmailTaken(doc.email)

\* await User.create(...): a refused document throws, the catch answers
\* 500.
SignupCreateCode(raw, roleIn) ==
    IF UserValid(NewUser(raw, roleIn)) /\ UserInsertAllowed(NewUser(raw, roleIn))
    THEN 201
    ELSE 500

\* POST /api/auth/signup (validateSignup, then the handler).
SignupCode(raw) ==
    IF ~EmailFormatOk(raw) THEN 400
    ELSE IF EmailTaken(NormalizeEmail(raw)) THEN 400
    ELSE 201

\* A signup that no other request overlaps, from validation to answer.
Signup(raw, roleIn) ==
    /\ users' = IF SignupCode(raw) = 201 /\ SignupCreateCode(raw, roleIn) = 201
                THEN Append(users, NewUser(raw, roleIn))
                ELSE users
    /\ UNCHANGED <<jobs, apps, uploads, inflight, uncounted>>

\* A signup suspended between User.findOne and User.create (the awaits of
\* findOne, bcrypt.genSalt, bcrypt.hash): the body it came with.
SignupReq(raw, roleIn) ==
    [op |-> "signup", pc |-> "create", raw |-> raw, roleIn |-> roleIn]

\* POST /api/auth/signup up to User.create: validateSignup, the
\* sanitizing assignments and the lookup of the e-mail.
SignupStart(raw, roleIn) ==
    /\ inflight' = IF SignupCode(raw) = 201
                   THEN inflight (+) SetToBag({SignupReq(raw, roleIn)})
                   ELSE inflight
    /\ UNCHANGED <<users, jobs, apps, uploads, uncounted>>

\* await User.create(...) and the answer, 201 or the catch's 500.
SignupCreate(r) ==
    /\ r \in BagToSet(inflight)
    /\ r.op = "signup"
    /\ users' = IF SignupCreateCode(r.raw, r.roleIn) = 201
                THEN Append(users, NewUser(r.raw, r.roleIn))
                ELSE users
    /\ inflight' = inflight (-) SetToBag({r})
    /\ UNCHANGED <<jobs, apps, uploads, uncounted>>

\* ------------------------------------------------------------- job routes

\* new Job({...req.body, postedBy: req.user.id}): every schema path of the
\* body is copied, applicationCount included; the default fills it only
\* when the body has none.
NewJob(u, bodyCount) ==
    [postedBy |-> u,
     applicationCount |-> IF bodyCount = -1 THEN DefaultApplicationCount
                          ELSE bodyCount]

\* POST /api/jobs.  fieldsOk: the body carries the schema's required
\* fields; without them job.save() throws and the catch answers 500.
CreateJobCode(u, fieldsOk) ==
    IF GateCode(u, {"company"}) /= 0 THEN GateCode(u, {"company"})
    ELSE IF ~fieldsOk THEN 500
    ELSE 201

CreateJob(u, bodyCount, fieldsOk) ==
    /\ jobs' = IF CreateJobCode(u, fieldsOk) = 201
               THEN Append(jobs, NewJob(u, bodyCount))
               ELSE jobs
    /\ UNCHANGED <<users, apps, uploads, inflight, uncounted>>

\* The names jobRoutes.js binds at module level (its require lines and the
\* router).
jobRoutesBindings == {"express", "Job", "protect", "roleAuthorization", "router"}

\* The GET routes of the job router in registration order.
JobGetRoutes == <<"/", "/:id", "/my">>

\* GET paths under /api/jobs: the root, /my, and /<id> for each id input.
JobGetPaths ==
    {[seg |-> "root", id |-> BadId], [seg |-> "my", id |-> BadId]}
        \cup {[seg |-> "id", id |-> i] : i \in JobIdInputs}

\* Express path matching: "/" matches only the root; "/:id" matches any
\* single segment, the literal "my" included; "/my" matches only /my.
RouteMatches(pattern, path) ==
    CASE pattern = "/" -> path.seg = "root"
      [] pattern = "/:id" -> path.seg \in {"my", "id"}
      [] pattern = "/my" -> path.seg = "my"

\* The router runs the first registered route that matches.
JobGetDispatch(path) ==
    JobGetRoutes[CHOOSE i \in 1..Len(JobGetRoutes) :
        /\ RouteMatches(JobGetRoutes[i], path)
        /\ \A k \in 1..(i - 1) : ~RouteMatches(JobGetRoutes[k], path)]

\* The route each GET path is dispatched to.
JobGetRouteOf == [path \in JobGetPaths |-> JobGetDispatch(path)]

\* req.params.id under "/:id": the segment itself; "my" is no ObjectId.
ParamId(path) == IF path.seg = "id" THEN path.id ELSE BadId

\* GET /api/jobs
ListJobs == Reply(200, "list", JobIds)

\* GET /api/jobs/:id.  The first statement of the try block reads the
\* identifier `mongoose`; unbound, it throws ReferenceError and the catch
\* answers 500.
GetById(u, id) ==
    IF ProtectRejects(u) THEN Reply(401, "getById", {})
    ELSE IF "mongoose" \notin jobRoutesBindings THEN Reply(500, "getById", {})
    ELSE IF ~ObjectIdIsValid(id) THEN Reply(400, "getById", {})
    ELSE IF id \notin JobIds THEN Reply(404, "getById", {})
    ELSE IF RoleOf(u) = "company" /\ jobs[id].postedBy /= u
        THEN Reply(403, "getById", {})
    ELSE Reply(200, "getById", {id})

\* The jobs a company owns: Job.find({postedBy: req.user.id}).
JobsPostedBy(u) == {j \in JobIds : jobs[j].postedBy = u}

\* GET /api/jobs/my
ListMine(u) ==
    IF GateCode(u, {"company"}) /= 0
    THEN Reply(GateCode(u, {"company"}), "listMine", {})
    ELSE Reply(200, "listMine", JobsPostedBy(u))

\* The answer to a GET request under /api/jobs: that of the route it is
\* dispatched to; its detail names the handler that ran.
JobsGetReply(u, path) ==
    CASE JobGetRouteOf[path] = "/" -> ListJobs
      [] JobGetRouteOf[path] = "/:id" -> GetById(u, ParamId(path))
      [] JobGetRouteOf[path] = "/my" -> ListMine(u)

HttpCodes == {200, 201, 400, 401, 403, 404, 500}

JobsGet ==
    /\ \A u \in Callers, path \in JobGetPaths :
           JobsGetReply(u, path).code \in HttpCodes
    /\ UNCHANGED <<users, jobs, apps, uploads, inflight, uncounted>>

\* ----------------------------------------------------- application routes

\* A request suspended at an await: handler, caller, position, the
\* identifier it named, and the handler's locals.  prior (history): an
\* application of the pair was stored when the submit arrived.
Req(op, u, pc, target, cl, file, app, status, loaded, prior) ==
    [op |-> op, user |-> u, pc |-> pc, target |-> target, cl |-> cl,
     file |-> file, app |-> app, status |-> status, loaded |-> loaded,
     prior |-> prior]

InFlight == BagToSet(inflight)

Pending(op, pc) == {r \in InFlight : r.op = op /\ r.pc = pc}

Suspend(r) == inflight (+) SetToBag({r})
Resume(r) == inflight (-) SetToBag({r})
Advance(r, q) == (inflight (-) SetToBag({r})) (+) SetToBag({q})

\* In a submit body, -1 stands for no jobId field.
NoJobId == -1

\* The file name the upload middleware generates: unique per upload.
NewFileName == Cardinality(uploads) + 1

AppsOf(j, u) == {a \in AppIds : apps[a].job = j /\ apps[a].user = u}
AppsOfJob(j) == {a \in AppIds : apps[a].job = j}

\* The validation block of submit, 0 when the request passes it.
SubmitValidationCode(hasFile, jobIn) ==
    IF ~hasFile THEN 400
    ELSE IF jobIn = NoJobId THEN 400
    ELSE IF ~ObjectIdIsValid(jobIn) THEN 400
    ELSE 0

\* The answer of submit before its first await, 0 when it goes on.
SubmitStartCode(u, hasFile, jobIn) ==
    IF GateCode(u, {"jobSeeker"}) /= 0 THEN GateCode(u, {"jobSeeker"})
    ELSE SubmitValidationCode(hasFile, jobIn)

\* POST /api/applications up to its first await: protect, the role gate,
\* the upload middleware (which stores the file before the handler
\* validates anything), then the handler's validation block.
SubmitStart(u, hasFile, jobIn, cl) ==
    /\ uploads' = IF GateCode(u, {"jobSeeker"}) = 0 /\ hasFile
                  THEN uploads \cup {NewFileName}
                  ELSE uploads
    /\ inflight' = IF SubmitStartCode(u, hasFile, jobIn) = 0
                   THEN Suspend(Req("submit", u, "findJob", jobIn, cl,
                                    NewFileName, 0, "", "",
                                    AppsOf(jobIn, u) /= {}))
                   ELSE inflight
    /\ UNCHANGED <<users, jobs, apps, uncounted>>

\* const job = await Job.findById(jobId); if (!job) 404
SubmitFindJobCode(r) == IF r.target \notin JobIds THEN 404 ELSE 0

SubmitFindJob(r) ==
    /\ r \in Pending("submit", "findJob")
    /\ inflight' = IF SubmitFindJobCode(r) /= 0 THEN Resume(r)
                   ELSE Advance(r, [r EXCEPT !.pc = "findExisting"])
    /\ UNCHANGED <<users, jobs, apps, uploads, uncounted>>

\* const existingApplication = await Application.findOne({job, user});
\* if (existingApplication) 400 'You have already applied for this job'
SubmitFindExistingCode(r) == IF AppsOf(r.target, r.user) /= {} THEN 400 ELSE 0

SubmitFindExisting(r) ==
    /\ r \in Pending("submit", "findExisting")
    /\ inflight' = IF SubmitFindExistingCode(r) /= 0 THEN Resume(r)
                   ELSE Advance(r, [r EXCEPT !.pc = "save"])
    /\ UNCHANGED <<users, jobs, apps, uploads, uncounted>>

\* new Application({...}): coverLetter is `coverLetter || ''`, status is
\* 'pending'.
NewApplication(r) ==
    [job |-> r.target, user |-> r.user, resume |-> r.file,
     coverLetter |-> r.cl, status |-> "pending"]

\* Schema validation on save: coverLetter is a required String, and
\* mongoose's required validator refuses the empty string; status must
\* be in the enum.
ApplicationValid(doc) ==
    /\ doc.coverLetter /= ""
    /\ doc.status \in StatusEnum

\* The collection's indexes: the schema declares none besides _id, so no
\* stored document stands in the way of an insert.
InsertAllowed(doc) == TRUE

\* await application.save(): a validation error is thrown to the catch
\* (500), otherwise the document is inserted.
SubmitSaveCode(r) ==
    IF ApplicationValid(NewApplication(r)) /\ InsertAllowed(NewApplication(r))
    THEN 0 ELSE 500

SubmitSave(r) ==
    /\ r \in Pending("submit", "save")
    /\ IF SubmitSaveCode(r) = 0
       THEN /\ apps' = Append(apps, NewApplication(r))
            /\ inflight' = Advance(r, [r EXCEPT !.pc = "inc", !.app = Len(apps) + 1])
       ELSE /\ inflight' = Resume(r)
            /\ UNCHANGED apps
    /\ UNCHANGED <<users, jobs, uploads, uncounted>>

\* Job.findByIdAndUpdate(jobId, {$inc: {applicationCount: 1}}): one
\* atomic update of the stored document.
IncApplicationCount(j) ==
    [jobs EXCEPT ![j].applicationCount = jobs[j].applicationCount + 1]

SubmitInc(r) ==
    /\ r \in Pending("submit", "inc")
    /\ jobs' = IncApplicationCount(r.target)
    /\ inflight' = Advance(r, [r EXCEPT !.pc = "populate"])
    /\ UNCHANGED <<users, apps, uploads, uncounted>>

\* What the catch block does to the stores when a store operation after
\* the insert throws: it logs, answers 500 and undoes nothing.
CatchAfterInsert(r) == apps

\* The increment throws (the store is unreachable): control passes to the
\* catch block.
SubmitIncFails(r) ==
    /\ r \in Pending("submit", "inc")
    /\ apps' = CatchAfterInsert(r)
    /\ inflight' = Resume(r)
    /\ uncounted' = uncounted \cup {r.app}
    /\ UNCHANGED <<users, jobs, uploads>>

\* One entry of a list answer.
Entry(a) == [app |-> a, status |-> apps[a].status]

\* Application.findById(application._id).populate(...), then 201.
SubmitPopulateReply(r) == Reply(201, "submitted", {Entry(r.app)})

SubmitPopulate(r) ==
    /\ r \in Pending("submit", "populate")
    /\ SubmitPopulateReply(r).code = 201
    /\ inflight' = Resume(r)
    /\ UNCHANGED <<users, jobs, apps, uploads, uncounted>>

\* GET /api/applications/resume/:filename.  The query finds an application
\* with that resume whose applicant is the caller or whose job the caller
\* posted; the answer's payload is the file.
FetchResumeCode(u, f) ==
    IF ProtectRejects(u) THEN 401
    ELSE IF ~\E a \in AppIds :
                /\ apps[a].resume = f
                /\ (apps[a].user = u \/ apps[a].job \in JobsPostedBy(u))
        THEN 403
    ELSE IF f \notin uploads THEN 404
    ELSE 200

FetchResumeReply(u, f) ==
    Reply(FetchResumeCode(u, f), "fetchResume",
          IF FetchResumeCode(u, f) = 200 THEN {f} ELSE {})

FetchResume ==
    /\ \A u \in Callers, f \in FileNames : FetchResumeCode(u, f) \in HttpCodes
    /\ UNCHANGED <<users, jobs, apps, uploads, inflight, uncounted>>

\* app.use('/uploads', express.static(uploadsDir)): mounted before any
\* router and behind no middleware; it serves every file of the
\* directory to any client.
StaticReply(u, f) ==
    IF f \in uploads THEN Reply(200, "static", {f})
    ELSE Reply(404, "static", {})

StaticGet ==
    /\ \A u \in Callers, f \in FileNames :
           StaticReply(u, f).code \in HttpCodes
    /\ UNCHANGED <<users, jobs, apps, uploads, inflight, uncounted>>

\* GET /api/applications/company
ListForCompanyCode(u) ==
    IF GateCode(u, {"company"}) /= 0 THEN GateCode(u, {"company"}) ELSE 200

ListForCompanyReply(u) ==
    Reply(ListForCompanyCode(u), "listForCompany",
          IF ListForCompanyCode(u) = 200
          THEN {Entry(a) : a \in {x \in AppIds : apps[x].job \in JobsPostedBy(u)}}
          ELSE {})

ListForCompany ==
    /\ \A u \in Callers : ListForCompanyCode(u) \in HttpCodes
    /\ UNCHANGED <<users, jobs, apps, uploads, inflight, uncounted>>

\* GET /api/applications/job/:jobId.  The job is looked up by id and
\* owner in one query; no match, for either reason, is answered 404.
ListForJobCode(u, j) ==
    IF GateCode(u, {"company"}) /= 0 THEN GateCode(u, {"company"})
    ELSE IF ~ObjectIdIsValid(j) THEN 400
    ELSE IF ~(j \in JobIds /\ jobs[j].postedBy = u) THEN 404
    ELSE 200

ListForJobReply(u, j) ==
    Reply(ListForJobCode(u, j), "listForJob",
          IF ListForJobCode(u, j) = 200
          THEN {Entry(a) : a \in AppsOfJob(j)}
          ELSE {})

ListForJob ==
    /\ \A u \in Callers, j \in JobIdInputs : ListForJobCode(u, j) \in HttpCodes
    /\ UNCHANGED <<users, jobs, apps, uploads, inflight, uncounted>>

\* GET /api/applications/my
ListForApplicantCode(u) ==
    IF GateCode(u, {"jobSeeker"}) /= 0 THEN GateCode(u, {"jobSeeker"}) ELSE 200

ListForApplicantReply(u) ==
    Reply(ListForApplicantCode(u), "listForApplicant",
          IF ListForApplicantCode(u) = 200
          THEN {Entry(a) : a \in {x \in AppIds : apps[x].user = u}}
          ELSE {})

ListForApplicant ==
    /\ \A u \in Callers : ListForApplicantCode(u) \in HttpCodes
    /\ UNCHANGED <<users, jobs, apps, uploads, inflight, uncounted>>

\* The validation block of setStatus, 0 when the request passes it: the
\* status value first, then the identifier.
SetStatusValidationCode(id, status) ==
    IF status \notin validStatuses THEN 400
    ELSE IF ~ObjectIdIsValid(id) THEN 400
    ELSE 0

\* setStatus without its ownership test.
OwnsApplicationAlways(u, a) == TRUE

\* The ownership test of setStatus on the loaded document:
\* application.job.postedBy.toString() !== req.user.id
OwnsApplication(u, a) == jobs[apps[a].job].postedBy = u

\* await Application.findById(id).populate('job', 'postedBy'); 404 when
\* absent, 403 when the job is another company's.
SetStatusLoadCode(u, id) ==
    IF id \notin AppIds THEN 404
    ELSE IF ~OwnsApplication(u, id) THEN 403
    ELSE 0

\* The answer of setStatus before its write, 0 when it goes on to save.
SetStatusCode(u, id, status) ==
    IF GateCode(u, {"company"}) /= 0 THEN GateCode(u, {"company"})
    ELSE IF SetStatusValidationCode(id, status) /= 0
        THEN SetStatusValidationCode(id, status)
    ELSE SetStatusLoadCode(u, id)

\* PUT /api/applications/:id/status up to its write.  The gates and the
\* validation block read only the request, so they are taken in one step
\* with the read of the application that follows them; the request is
\* then suspended at save() holding the document it loaded.
SetStatusLoad(u, id, status) ==
    /\ inflight' = IF SetStatusCode(u, id, status) = 0
                   THEN Suspend(Req("setStatus", u, "save", id, "", 0, id,
                                    status, apps[id].status, FALSE))
                   ELSE inflight
    /\ UNCHANGED <<users, jobs, apps, uploads, uncounted>>

\* application.status = status; await application.save().  Mongoose
\* writes the paths that differ from the loaded document: assigning the
\* loaded value again marks nothing modified and save() writes nothing.
SavedStatus(r) ==
    IF r.status /= r.loaded
    THEN [apps EXCEPT ![r.target].status = r.status]
    ELSE apps

SetStatusSaveReply(r) ==
    Reply(200, "status updated", {[app |-> r.target, status |-> r.status]})

SetStatusSave(r) ==
    /\ r \in Pending("setStatus", "save")
    /\ apps' = SavedStatus(r)
    /\ inflight' = Resume(r)
    /\ UNCHANGED <<users, jobs, uploads, uncounted>>

\* ---------------------------------------------------------- specification

\* The number of setStatus requests suspended at an await.
StatusInflight ==
    BagCardinality([r \in {x \in InFlight : x.op = "setStatus"} |-> inflight[r]])

\* The requests that only read the stores; each is a stuttering step.
Reads ==
    \/ JobsGet /\ UNCHANGED phase
    \/ FetchResume /\ UNCHANGED phase
    \/ StaticGet /\ UNCHANGED phase
    \/ ListForCompany /\ UNCHANGED phase
    \/ ListForJob /\ UNCHANGED phase
    \/ ListForApplicant /\ UNCHANGED phase

\* The requests that write the stores and the steps they take, for
\* a workload w: capacities (jobs posted, files uploaded, requests in
\* flight at once, setStatus requests among them) and the request bodies
\* clients send.
Requests(w) ==
    \/ /\ Len(jobs) < w.maxJobs
       /\ \E u \in Callers, c \in w.counts, ok \in w.fieldsOk : CreateJob(u, c, ok)
       /\ UNCHANGED phase
    \/ /\ Cardinality(uploads) < w.maxFiles
       /\ BagCardinality(inflight) < w.maxInflight
       /\ \E u \in Callers, hasFile \in w.hasFile, j \in w.jobIds,
             cl \in w.coverLetters :
              SubmitStart(u, hasFile, j, cl)
       /\ UNCHANGED phase
    \/ \E r \in InFlight : SubmitFindJob(r) /\ UNCHANGED phase
    \/ \E r \in InFlight : SubmitFindExisting(r) /\ UNCHANGED phase
    \/ \E r \in InFlight : SubmitSave(r) /\ UNCHANGED phase
    \/ \E r \in InFlight : SubmitInc(r) /\ UNCHANGED phase
    \/ \E r \in InFlight : SubmitPopulate(r) /\ UNCHANGED phase
    \/ /\ StatusInflight < w.maxStatus
       /\ BagCardinality(inflight) < w.maxInflight
       /\ \E u \in Callers, id \in w.appIds, st \in w.statuses :
              SetStatusLoad(u, id, st)
       /\ UNCHANGED phase
    \/ \E r \in InFlight : SetStatusSave(r) /\ UNCHANGED phase

\* Submission and access runs: every shape of job posting and of submit;
\* setStatus with one valid and one invalid value.
SubmitWorkload ==
    [maxJobs |-> MaxJobs, maxFiles |-> MaxFiles, maxStatus |-> MaxStatusInflight,
     maxInflight |-> MaxFiles + MaxStatusInflight,
     counts |-> BodyCounts, fieldsOk |-> BOOLEAN, hasFile |-> BOOLEAN,
     jobIds |-> {NoJobId} \cup (0..MaxJobs), coverLetters |-> CoverLetterInputs,
     appIds |-> 0..MaxFiles, statuses |-> {"accepted", "archived"}]

\* The database refuses an operation of a suspended request.
Failures == \E r \in InFlight : SubmitIncFails(r) /\ UNCHANGED phase

Next == Requests(SubmitWorkload) \/ Reads \/ Failures

Spec == Init /\ [][Next]_vars

\* Workflow runs on a database that does not fail: well-formed job
\* postings, submissions with and without a cover letter, every shape of
\* setStatus; at most StatusRequests requests in flight at once.  The
\* requests that only read are the stuttering steps of these runs.
StatusWorkload ==
    [maxJobs |-> StatusJobs, maxFiles |-> StatusFiles, maxStatus |-> StatusRequests,
     maxInflight |-> StatusRequests,
     counts |-> {-1}, fieldsOk |-> {TRUE}, hasFile |-> {TRUE},
     jobIds |-> 1..StatusJobs, coverLetters |-> CoverLetterInputs,
     appIds |-> 0..StatusFiles, statuses |-> StatusInputs]

StatusNext == Requests(StatusWorkload)

StatusSpec == Init /\ [][StatusNext]_vars

\* The end-to-end client script, one request at a time against a fresh
\* deployment: company A signs up (user 1), posts job J (job 1), job
\* seeker B signs up (user 2) and submits to J with a resume file; A
\* lists its applications (phase 6); A sets application 1 to accepted; B
\* lists its own applications (phase 9).
ScenarioInit == EmptyStores /\ phase = 1

\* The script moves on when the request it sent has been answered.
Answered(next, waiting) == IF inflight' = EmptyBag THEN next ELSE waiting

ScenarioNext ==
    \/ /\ phase = 1
       /\ \E raw \in RawEmails : SignupCode(raw) = 201 /\ Signup(raw, <<"company">>)
       /\ phase' = 2
    \/ /\ phase = 2
       /\ \E c \in BodyCounts : CreateJob(1, c, TRUE)
       /\ phase' = 3
    \/ /\ phase = 3
       /\ \E raw \in RawEmails, roleIn \in {<<>>, <<"jobSeeker">>} :
              SignupCode(raw) = 201 /\ Signup(raw, roleIn)
       /\ phase' = 4
    \/ /\ phase = 4
       /\ \E cl \in CoverLetterInputs : SubmitStart(2, TRUE, 1, cl)
       /\ phase' = 5
    \/ phase = 5 /\ (\E r \in InFlight : SubmitFindJob(r)) /\ phase' = Answered(6, 5)
    \/ phase = 5 /\ (\E r \in InFlight : SubmitFindExisting(r)) /\ phase' = Answered(6, 5)
    \/ phase = 5 /\ (\E r \in InFlight : SubmitSave(r)) /\ phase' = Answered(6, 5)
    \/ phase = 5 /\ (\E r \in InFlight : SubmitInc(r)) /\ phase' = Answered(6, 5)
    \/ phase = 5 /\ (\E r \in InFlight : SubmitIncFails(r)) /\ phase' = Answered(6, 5)
    \/ phase = 5 /\ (\E r \in InFlight : SubmitPopulate(r)) /\ phase' = Answered(6, 5)
    \/ phase = 6 /\ ListForCompany /\ phase' = 7
    \/ phase = 7 /\ SetStatusLoad(1, 1, "accepted") /\ phase' = Answered(9, 8)
    \/ phase = 8 /\ (\E r \in InFlight : SetStatusSave(r)) /\ phase' = 9
    \/ phase = 9 /\ ListForApplicant /\ phase' = 10

ScenarioSpec == ScenarioInit /\ [][ScenarioNext]_vars

\* Signup runs on a fresh deployment: every e-mail and role spelling, and
\* signups that overlap between the lookup and the insert.
AuthInit == EmptyStores /\ phase = 0

AuthNext ==
    \/ /\ Len(users) + BagCardinality(inflight) < MaxSignups
       /\ \E raw \in RawEmails, roleIn \in RoleInputs : SignupStart(raw, roleIn)
       /\ UNCHANGED phase
    \/ \E r \in InFlight : SignupCreate(r) /\ UNCHANGED phase

AuthSpec == AuthInit /\ [][AuthNext]_vars

\* ------------------------------------------------------------- properties

Companies == {u \in UserIds : RoleOf(u) = "company"}

\* The request r is no longer where it was: it moved on or was answered.
Leaves(r) == CopiesIn(r, inflight') < CopiesIn(r, inflight)

\* C1: for every job and every job seeker at most one Application of the
\* pair is stored, also when submits run concurrently; and a submit that
\* arrives when an Application of its pair is already stored is answered
\* 400 at the duplicate check and never reaches the insert.
C1_OneApplicationPerPair ==
    /\ \A j \in JobIds, u \in UserIds : Cardinality(AppsOf(j, u)) <= 1
    /\ \A r \in InFlight :
           (r.op = "submit" /\ r.prior) =>
               /\ r.pc \in {"findJob", "findExisting"}
               /\ r.pc = "findExisting" => SubmitFindExistingCode(r) = 400

\* C2: for a job created through POST /api/jobs, once N >= 1 submits to
\* it have all completed successfully (none is in flight, none ended
\* before counting, no pair is stored twice), its applicationCount is N.
C2_CountEqualsSubmits ==
    \A j \in JobIds :
        ( /\ AppsOfJob(j) /= {}
          /\ \A r \in InFlight : ~(r.op = "submit" /\ r.target = j)
          /\ AppsOfJob(j) \cap uncounted = {}
          /\ \A u \in UserIds : Cardinality(AppsOf(j, u)) <= 1 )
        => jobs[j].applicationCount = Cardinality(AppsOfJob(j))

\* C3: a submit whose Application has been inserted leaves the counting
\* step only with the job's applicationCount raised, or with the
\* Application taken out of the store again: no insert stays behind
\* uncounted when the request ends in an error.
C3_InsertIsCountedOrUndone ==
    [][\A r \in Pending("submit", "inc") :
          Leaves(r) =>
              \/ jobs'[r.target].applicationCount
                     = jobs[r.target].applicationCount + 1
              \/ Len(apps') < Len(apps)]_vars

\* C4: the status of a stored Application changes only in the write of a
\* setStatus request for that Application, sent by a company user who
\* posted the Application's job, and it changes to the requested value.
C4_StatusOnlyByOwner ==
    [][\A a \in AppIds :
          apps'[a].status /= apps[a].status =>
              \E r \in Pending("setStatus", "save") :
                  /\ r.target = a
                  /\ RoleOf(r.user) = "company"
                  /\ jobs[apps[a].job].postedBy = r.user
                  /\ Leaves(r)
                  /\ apps'[a].status = r.status]_vars

\* C4 witness: an Application of a job whose owner is not the only
\* company has left its initial status.
C4_Witness ==
    \E a \in AppIds :
        /\ apps[a].status /= "pending"
        /\ \E u \in Companies : u /= jobs[apps[a].job].postedBy

\* C5: a company user who did not post a job is answered 403 by getById
\* and by listForJob for that job, and by setStatus for every
\* Application of that job.
C5_NonOwnerForbidden ==
    \A u \in Companies :
        /\ \A j \in JobIds :
               jobs[j].postedBy /= u =>
                   /\ JobsGetReply(u, [seg |-> "id", id |-> j]).code = 403
                   /\ ListForJobReply(u, j).code = 403
        /\ \A a \in AppIds, st \in validStatuses :
               jobs[apps[a].job].postedBy /= u => SetStatusCode(u, a, st) = 403

\* C6: the bytes of an Application's resume file reach only the
\* applicant and the company that posted the job, over the fetch route
\* and over the static /uploads path alike; those two are served it.
C6_ResumeOnlyForParties ==
    \A a \in AppIds :
        apps[a].resume \in uploads =>
            \A u \in Callers :
                IF u /= Anonymous
                   /\ u \in {apps[a].user, jobs[apps[a].job].postedBy}
                THEN FetchResumeReply(u, apps[a].resume).body = {apps[a].resume}
                ELSE /\ FetchResumeReply(u, apps[a].resume).body = {}
                     /\ StaticReply(u, apps[a].resume).body = {}

\* C7: GET /api/jobs/my with a company token is handled by listMine: it
\* answers 200 with exactly the jobs the caller posted.
C7_MyJobsReachesListMine ==
    \A u \in Companies :
        /\ JobGetDispatch([seg |-> "my", id |-> BadId]) = "/my"
        /\ JobsGetReply(u, [seg |-> "my", id |-> BadId]).code = 200
        /\ JobsGetReply(u, [seg |-> "my", id |-> BadId]).body = JobsPostedBy(u)

\* C8: getById answers 400 for a malformed id, else 404 when no job has
\* the id, else 403 when the caller is a company that did not post it,
\* else 200.
C8_GetByIdPrecedence ==
    \A u \in UserIds, id \in JobIdInputs :
        GetById(u, id).code =
            IF ~ObjectIdIsValid(id) THEN 400
            ELSE IF id \notin JobIds THEN 404
            ELSE IF RoleOf(u) = "company" /\ jobs[id].postedBy /= u THEN 403
            ELSE 200

\* C9: in the end-to-end script, A's list of its applications holds
\* exactly one entry, with status pending, and after A has set it to
\* accepted B's list of its own applications shows it accepted.
C9_EndToEnd ==
    /\ phase = 6 =>
           /\ ListForCompanyReply(1).code = 200
           /\ Cardinality(ListForCompanyReply(1).body) = 1
           /\ \A e \in ListForCompanyReply(1).body : e.status = "pending"
    /\ phase = 9 =>
           \E e \in ListForApplicantReply(2).body : e.status = "accepted"

\* The four names of the status lifecycle.
FourStatuses == {"pending", "reviewed", "rejected", "accepted"}

\* C10 (state part): every stored status is one of the four names; a
\* company's setStatus with any other value is answered 400, whatever
\* identifier it names (malformed, stored or unknown); the owner's
\* setStatus with one of the four is let through to the write whatever
\* the Application's current status.
C10_Statuses ==
    /\ \A a \in AppIds : apps[a].status \in FourStatuses
    /\ \A st \in StatusInputs \ FourStatuses, u \in Companies,
          id \in 0..(Len(apps) + 1) :
           SetStatusCode(u, id, st) = 400
    /\ \A a \in AppIds, st \in FourStatuses :
           SetStatusCode(jobs[apps[a].job].postedBy, a, st) = 0

\* C10 (step part): a new Application starts as pending; a write of
\* setStatus stores the requested value when it differs from the one it
\* loaded; no step stores a status that was not requested.
C10_Steps ==
    /\ \A a \in (1..Len(apps')) \ AppIds : apps'[a].status = "pending"
    /\ \A r \in Pending("setStatus", "save") :
           (Leaves(r) /\ r.status /= r.loaded) =>
               apps'[r.target].status = r.status
    /\ \A a \in AppIds :
           apps'[a].status /= apps[a].status =>
               \E r \in Pending("setStatus", "save") :
                   r.target = a /\ apps'[a].status = r.status

\* C10: setStatus accepts exactly the four status names, from any
\* current status; anything else is answered 400 and changes nothing;
\* stored statuses are always among the four and start as pending.
C10_FourStatuses == []C10_Statuses /\ [][C10_Steps]_vars

\* C10 witness: the owner's request to move an Application out of a
\* final status (accepted, rejected) back to an earlier one has passed
\* validation and is about to write.
C10_Witness ==
    \E r \in Pending("setStatus", "save") :
        /\ r.loaded \in {"accepted", "rejected"}
        /\ r.status \in {"pending", "reviewed"}
        /\ apps[r.target].status = r.loaded

\* Some stored user has the e-mail that raw normalizes to.
Registered(raw) ==
    \E i \in UserIds : NormalizeEmail(users[i].email) = NormalizeEmail(raw)

\* The roles the specification names for a signup, and no role.
NamedRoles == {<<>>, <<"jobSeeker">>, <<"company">>}

\* C11 (state part): no two stored users share a normalized e-mail; a
\* signup whose e-mail normalizes to a registered one is rejected; a
\* signup whose e-mail normalizes to a well-formed one that is not
\* registered is let through to the insert.
C11_Emails ==
    /\ \A i, j \in UserIds :
           i /= j => NormalizeEmail(users[i].email) /= NormalizeEmail(users[j].email)
    /\ \A raw \in RawEmails : Registered(raw) => SignupCode(raw) = 400
    /\ \A raw \in RawEmails :
           (~Registered(raw) /\ EmailFormatOk(NormalizeEmail(raw)))
               => SignupCode(raw) = 201

\* C11 (step part): the insert of a signup stores nothing when the
\* e-mail has been registered meanwhile, and else stores one user with
\* the normalized e-mail and the submitted role, jobSeeker when none was
\* submitted; nothing else adds a user.
C11_Inserts ==
    /\ \A r \in Pending("signup", "create") :
           (Leaves(r) /\ r.roleIn \in NamedRoles) =>
               users' = IF Registered(r.raw)
                        THEN users
                        ELSE Append(users,
                                 [email |-> NormalizeEmail(r.raw),
                                  role |-> IF r.roleIn = <<>> THEN "jobSeeker"
                                           ELSE r.roleIn[1]])
    /\ users' /= users => \E r \in Pending("signup", "create") : Leaves(r)

\* C11: once a signup with an e-mail has succeeded, every later signup
\* whose e-mail is the same after trimming and lower-casing is rejected
\* and creates no user, so no two stored users share a normalized
\* e-mail; a signup with an e-mail that is not registered stores a user
\* with exactly the submitted role, or jobSeeker when none is submitted.
C11_SignupByNormalizedEmail == []C11_Emails /\ [][C11_Inserts]_vars

\* C12: a submit that has passed the gates and the handler's checks (a
\* jobSeeker, a resume attached, the id of a stored job, no Application
\* of the pair stored) and carries an absent or empty coverLetter gets
\* through its save by storing one Application in status pending with an
\* empty coverLetter, which the counting step then adds to the job's
\* applicationCount.
C12_EmptyCoverLetterSubmits ==
    [][\A r \in Pending("submit", "save") :
          (Leaves(r) /\ r.cl = "" /\ AppsOf(r.target, r.user) = {}) =>
              /\ Len(apps') = Len(apps) + 1
              /\ apps'[Len(apps')].status = "pending"
              /\ apps'[Len(apps')].coverLetter = ""
              /\ \E q \in Pending("submit", "inc")' :
                     q.app = Len(apps')]_vars

====
